---- MODULE Spec2Model ----
(***************************************************************************)
(* Clip3 (src/App.tsx, first component of the file): the frame sampler,    *)
(* the analysis call, the clip engine and the history cache, as the state  *)
(* machine the React component implements.                                 *)
(*                                                                         *)
(* One action is one task of the browser's event loop: a user event, or    *)
(* the completion of something an async function awaits (metadata loaded,  *)
(* a seek, the analysis response, an engine operation).  An action runs    *)
(* the code from that point to the next await that really suspends, the    *)
(* promise continuations in between included.                              *)
(*                                                                         *)
(* A run is one invocation of startAnalysis.  It keeps the values its      *)
(* closure captured when the button was clicked (videoFile, history,       *)
(* isEngineAvailable); refs (ffmpegRef) and functional state updates       *)
(* (setHistory(prev => ...)) read the current value.                       *)
(*                                                                         *)
(* Units: durations and highlight timestamps are in milliseconds, seek     *)
(* times in microseconds, frame labels in hundredths of a second.          *)
(***************************************************************************)
EXTENDS Integers, Sequences, FiniteSets, TLC

VARIABLES
    videoFile,          \* useState videoFile: 0 is null, else a file identity
    status,             \* useState status (AnalysisStatus)
    results,            \* useState results: NoResult is null
    error,              \* useState error: NoError is null
    history,            \* useState history, newest first
    isEngineAvailable,  \* useState isEngineAvailable: "null", "true", "false"
    ffmpegRef,          \* ffmpegRef.current: 0 is null, else the engine instance
    clippingProgress,   \* useState clippingProgress
    samplingProgress,   \* useState samplingProgress
    targetJersey,       \* useState targetJersey, a string as a sequence of characters
    runs,               \* the invocations of startAnalysis so far, in order
    clock,              \* Date.now()
    engines,            \* number of FFmpeg instances constructed (new FFmpeg())
    initFailed,         \* an ffmpeg.load() of this session has failed
    scenario,           \* what the session's environment offers; never changes
    storage,            \* localStorage[CACHE_KEY], parsed: the persisted history
    gallery,            \* useState gallery
    pending,            \* the calls of saveToGallery / removeFromGallery in flight
    storageErrors,      \* the storage writes that failed, and whether a handler caught them
    mounted,            \* the component tree is mounted
    mount,              \* how far mounting has come, and the setHistory calls not rendered yet
    engineFiles         \* the files in the engines' working filesystems

vars == <<videoFile, status, results, error, history, isEngineAvailable,
          ffmpegRef, clippingProgress, samplingProgress, targetJersey, runs,
          clock, engines, initFailed, scenario, storage, gallery, pending,
          storageErrors, mounted, mount, engineFiles>>

(***************************************************************************)
(* Bounds of the model and constants of the program.                       *)
(***************************************************************************)
NumFiles == 2               \* files the user has at hand
MaxRuns == 2                \* invocations of startAnalysis in a session
ShortFrameCount == 2        \* ticks of the sampler in the pipeline specification
MaxPending == 2             \* gallery writes in flight at a time

TARGET_FRAME_COUNT == 100   \* App.tsx:12
HistoryLimit == 10          \* App.tsx:233: .slice(0, 10)
LeadInSeconds == 5          \* App.tsx:183
ClipDurationSeconds == 10   \* App.tsx:184

NoResult == [null |-> TRUE]
NoError == "null"

(***************************************************************************)
(* Strings, as sequences of one-character strings.                         *)
(***************************************************************************)
\* toLowerCase of one character, for the letters the model uses
LowerChar(c) ==
    CASE c = "U" -> "u"
      [] c = "N" -> "n"
      [] c = "K" -> "k"
      [] c = "O" -> "o"
      [] c = "W" -> "w"
      [] OTHER -> c

toLowerCase(s) == [k \in 1..Len(s) |-> LowerChar(s[k])]

RECURSIVE trimStart(_)
trimStart(s) ==
    IF s # <<>> /\ Head(s) = " " THEN trimStart(Tail(s)) ELSE s

RECURSIVE trimEnd(_)
trimEnd(s) ==
    IF s # <<>> /\ s[Len(s)] = " " THEN trimEnd(SubSeq(s, 1, Len(s) - 1)) ELSE s

trim(s) == trimEnd(trimStart(s))

\* String.prototype.includes: n occurs in s as a contiguous run of characters.
includes(s, n) ==
    \E k \in 0..(Len(s) - Len(n)) : SubSeq(s, k + 1, k + Len(n)) = n

(***************************************************************************)
(* Highlights and analysis results (src/types.ts).  playerJerseyNumber is  *)
(* optional: defined says whether the property is present.  clip is 0 when *)
(* the highlight has neither clipBlob nor clipUrl, else the engine run     *)
(* that produced the clip.                                                 *)
(***************************************************************************)
Jersey(str) == [defined |-> TRUE, str |-> str]
NoJersey == [defined |-> FALSE, str |-> <<>>]

Highlight(t, display, type, jersey) ==
    [timestampSeconds |-> t, displayTime |-> display, description |-> "play",
     scoreType |-> type, intensity |-> "High", playerJerseyNumber |-> jersey,
     clip |-> 0]

hasClip(h) == h.clip # 0

\* What the analysis service may answer with (parsed payloads).
ResultTwo ==
    [highlights |-> << Highlight(45300, "00:45", "Goal", Jersey(<<"7">>)),
                       Highlight(3000, "00:03", "Goal", Jersey(<<"2", "3">>)) >>,
     summary |-> "two goals"]

ResultNone == [highlights |-> <<>>, summary |-> "no score"]

Payloads == {ResultTwo, ResultNone}

filteredHighlightsExact(res, target) ==
    IF res = NoResult THEN <<>>
    ELSE IF trim(target) = <<>> THEN res.highlights
    ELSE SelectSeq(res.highlights,
                   LAMBDA h : /\ h.playerJerseyNumber.defined
                              /\ toLowerCase(h.playerJerseyNumber.str)
                                   = toLowerCase(trim(target)))

\* const filteredHighlights = useMemo(...), of results and targetJersey
filteredHighlights(res, target) ==
    IF res = NoResult THEN <<>>
    ELSE IF trim(target) = <<>> THEN res.highlights
    ELSE SelectSeq(res.highlights,
                   LAMBDA h : /\ h.playerJerseyNumber.defined
                              /\ includes(toLowerCase(h.playerJerseyNumber.str),
                                          toLowerCase(trim(target))))

(***************************************************************************)
(* The component's state as one record, so that the functions of the      *)
(* component are operators from state to state and call each other as in  *)
(* the source.                                                            *)
(***************************************************************************)
State ==
    [videoFile |-> videoFile, status |-> status, results |-> results,
     error |-> error, history |-> history,
     isEngineAvailable |-> isEngineAvailable, ffmpegRef |-> ffmpegRef,
     clippingProgress |-> clippingProgress,
     samplingProgress |-> samplingProgress, runs |-> runs, clock |-> clock,
     engines |-> engines, initFailed |-> initFailed,
     engineFiles |-> engineFiles]

\* useEffect(() => localStorage.setItem(CACHE_KEY, JSON.stringify(history)),
\* [history]) after a render with the history `next`: the write succeeds, or
\* setItem throws (quota exceeded); no error boundary is above the component,
\* so an error thrown by an effect unmounts the tree.
PersistHistory(next) ==
    \/ /\ storage' = IF next = history THEN storage ELSE next
       /\ UNCHANGED <<storageErrors, mounted>>
    \/ /\ "storageFailure" \in scenario.hazards
       /\ next # history
       /\ storage' = storage
       /\ storageErrors' = storageErrors \cup {[op |-> "persist history", caught |-> FALSE]}
       /\ mounted' = FALSE

\* The state updates of one task, the render and its effects.  Updates of an
\* unmounted component are not modelled: nothing moves once the tree is gone.
Becomes(s) ==
    /\ mounted
    /\ PersistHistory(s.history)
    /\ UNCHANGED <<gallery, pending>>
    /\ videoFile' = s.videoFile
    /\ status' = s.status
    /\ results' = s.results
    /\ error' = s.error
    /\ history' = s.history
    /\ isEngineAvailable' = s.isEngineAvailable
    /\ ffmpegRef' = s.ffmpegRef
    /\ clippingProgress' = s.clippingProgress
    /\ samplingProgress' = s.samplingProgress
    /\ runs' = s.runs
    /\ clock' = s.clock
    /\ engines' = s.engines
    /\ initFailed' = s.initFailed
    /\ engineFiles' = s.engineFiles
    /\ UNCHANGED <<targetJersey, scenario, mount>>

\* Math.round(x / y * 100) for x, y >= 0, y > 0: halves round up.
RoundPercent(x, y) == (200 * x + y) \div (2 * y)

(***************************************************************************)
(* One invocation of startAnalysis.  pc is the await it is suspended at:   *)
(*   "meta"    sampleFrames, before onloadedmetadata / onerror             *)
(*   "seek"    sampleFrames, awaiting 'seeked' for tick `tick`             *)
(*   "analyze" awaiting analyzeVideo                                       *)
(*   "load"    tryLoadFFmpeg, awaiting toBlobURL / ffmpeg.load             *)
(*   "write"   generateClips, awaiting fetchFile / ffmpeg.writeFile        *)
(*   "exec"    generateClips, awaiting ffmpeg.exec for highlight i         *)
(*   "read"    generateClips, awaiting ffmpeg.readFile for highlight i     *)
(*   "completed", "error"  startAnalysis has returned                      *)
(*   "rejected" startAnalysis has thrown outside its try block             *)
(*   "hung"    onloadedmetadata has thrown: sampleFrames' promise is never *)
(*             settled                                                     *)
(*   "stalled" sampleFrames, awaiting a 'seeked' that never comes          *)
(* engine is the FFmpeg instance the run constructed, ffmpeg the instance  *)
(* generateClips works on (0: none).  The fields after `output` record     *)
(* what the run did, for the properties.                                   *)
(***************************************************************************)
NewRun(file, hist, engineAvailable, prior) ==
    [file |-> file,
     history |-> hist,
     isEngineAvailable |-> engineAvailable,
     pc |-> "start",
     cacheHit |-> FALSE,
     duration |-> 0, tick |-> 0, currentTime |-> 0, frames |-> <<>>,
     urlLive |-> FALSE,
     analysis |-> NoResult, updatedHighlights |-> <<>>, i |-> 0,
     engine |-> 0,
     ffmpeg |-> 0,
     output |-> NoResult,
     statuses |-> <<>>,
     thrown |-> "",
     response |-> [kind |-> "none"],
     keyPrompt |-> FALSE,
     priorRun |-> prior,
     sampled |-> FALSE, analyzed |-> FALSE,
     unavailableAtCall |-> FALSE, initAfterFailure |-> FALSE,
     trimStart |-> <<>>, trimDuration |-> <<>>,
     trimOk |-> <<>>, readOk |-> <<>>]

getFileId(file) == file

\* setStatus(v), called by run k
SetStatus(s, k, v) ==
    [s EXCEPT !.status = v, !.runs[k].statuses = Append(@, v)]

FindCachedNever(h, fileId) == 0

\* history.find(item => item.id === fileId): the index of the first match, 0 if none.
FindCached(h, fileId) ==
    IF \E n \in 1..Len(h) : h[n].id = fileId
    THEN CHOOSE n \in 1..Len(h) :
            /\ h[n].id = fileId
            /\ \A m \in 1..(n - 1) : h[m].id # fileId
    ELSE 0

\* prev.filter(h => h.id !== fileId)
RECURSIVE FilterOut(_, _)
FilterOut(prev, fileId) ==
    IF prev = <<>> THEN <<>>
    ELSE IF Head(prev).id # fileId
         THEN <<Head(prev)>> \o FilterOut(Tail(prev), fileId)
         ELSE FilterOut(Tail(prev), fileId)

\* .slice(0, n)
Slice0(seq, n) == SubSeq(seq, 1, IF Len(seq) < n THEN Len(seq) ELSE n)

PutHistoryUnbounded(prev, historyItem) ==
    <<historyItem>> \o FilterOut(prev, historyItem.id)

PutHistoryUnfiltered(prev, historyItem) ==
    Slice0(<<historyItem>> \o prev, HistoryLimit)

\* setHistory(prev => [historyItem, ...prev.filter(h => h.id !== fileId)].slice(0, 10))
PutHistory(prev, historyItem) ==
    Slice0(<<historyItem>> \o FilterOut(prev, historyItem.id), HistoryLimit)

ClipStartUnclamped(timestamp) == timestamp - LeadInSeconds * 1000

\* Math.max(0, h.timestampSeconds - 5), in milliseconds
ClipStart(timestamp) ==
    IF timestamp - LeadInSeconds * 1000 > 0
    THEN timestamp - LeadInSeconds * 1000
    ELSE 0

DefaultErrorText ==
    "Analysis failed. The video may be too long or in an unsupported format."

\* catch (err) of startAnalysis: setError(err.message || '...'); setStatus(ERROR)
Fail(s, k, message) ==
    SetStatus([s EXCEPT !.error = IF message = "" THEN DefaultErrorText ELSE message,
                        !.runs[k].thrown = message,
                        !.runs[k].pc = "error"], k, "ERROR")

\* setResults(x); setStatus(COMPLETED): the end of startAnalysis on both paths
Commit(s, k, result) ==
    SetStatus([s EXCEPT !.results = result,
                        !.runs[k].pc = "completed",
                        !.runs[k].output = result], k, "COMPLETED")

\* ffmpeg.exec(['-ss', start, '-i', input, '-t', '10', '-c', 'copy', output]) is issued
IssueTrim(s, k, idx) ==
    LET h == s.runs[k].updatedHighlights[idx] IN
    [s EXCEPT !.runs[k].i = idx,
              !.runs[k].pc = "exec",
              !.runs[k].trimStart = Append(@, ClipStart(h.timestampSeconds)),
              !.runs[k].trimDuration = Append(@, ClipDurationSeconds * 1000)]

\* The end of one pass of the loop over updatedHighlights, and the loop's exit.
AfterClip(s, k) ==
    LET r == s.runs[k]
        n == Len(r.updatedHighlights)
        s1 == [s EXCEPT !.clippingProgress = RoundPercent(r.i, n)]
    IN  IF r.i < n
        THEN IssueTrim(s1, k, r.i + 1)
        ELSE Commit(s1, k, [r.analysis EXCEPT !.highlights = r.updatedHighlights])

BeginBatchSilent(s, k) ==
    [s EXCEPT !.clippingProgress = 0,
              !.runs[k].pc = "write"]

\* generateClips after tryLoadFFmpeg returned an engine: up to the await of writeFile
BeginBatch(s, k) ==
    SetStatus([s EXCEPT !.clippingProgress = 0,
                        !.runs[k].pc = "write"], k, "CLIPPING")

\* An exception thrown in startAnalysis by a call of run k: the call of
\* generateClips on a cached result is outside the try block, the rest inside.
Throw(s, k, message) ==
    IF s.runs[k].cacheHit
    THEN [s EXCEPT !.runs[k].pc = "rejected", !.runs[k].thrown = message]
    ELSE Fail(s, k, message)

\* what reading .length of an undefined highlights property throws
LengthOfUndefined == "Cannot read properties of undefined (reading 'length')"

\* generateClips(analysis, file) up to its first await that suspends, with
\* tryLoadFFmpeg up to its own.
generateClips(s, k, analysis) ==
    LET s0 == [s EXCEPT !.runs[k].analysis = analysis,
                        !.runs[k].unavailableAtCall = (s.isEngineAvailable = "false")]
    IN  IF "highlights" \notin DOMAIN analysis THEN Throw(s0, k, LengthOfUndefined)
        ELSE IF Len(analysis.highlights) = 0 THEN Commit(s0, k, analysis)
        ELSE IF s0.ffmpegRef # 0
             THEN BeginBatch([s0 EXCEPT !.runs[k].ffmpeg = s0.ffmpegRef], k)
        ELSE IF s0.runs[k].isEngineAvailable = "false" THEN Commit(s0, k, analysis)
        ELSE [s0 EXCEPT !.engines = @ + 1,
                        !.runs[k].engine = s0.engines + 1,
                        !.runs[k].initAfterFailure = s0.initFailed,
                        !.runs[k].pc = "load"]

\* startAnalysis up to its first await that suspends.
startAnalysis(s) ==
    LET k == Len(s.runs) + 1
        fileId == getFileId(s.videoFile)
        prior == \E j \in 1..Len(s.runs) : s.runs[j].file = fileId
        s0 == [s EXCEPT !.error = NoError,
                        !.runs = Append(@, NewRun(s.videoFile, s.history,
                                                  s.isEngineAvailable, prior))]
        cached == FindCached(s0.runs[k].history, fileId)
    IN  IF cached # 0
        THEN generateClips([s0 EXCEPT !.runs[k].cacheHit = TRUE], k,
                           s0.runs[k].history[cached].result)
        ELSE SetStatus([s0 EXCEPT !.runs[k].sampled = TRUE,
                                  !.runs[k].urlLive = TRUE,
                                  !.runs[k].pc = "meta"], k, "SAMPLING")

(***************************************************************************)
(* sampleFrames                                                            *)
(***************************************************************************)
\* const interval = duration / TARGET_FRAME_COUNT, in microseconds
Interval(duration, frameCount) == (duration * 1000) \div frameCount

TickTimeNext(i, interval) == (i + 1) * interval

\* const time = i * interval
TickTime(i, interval) == i * interval

\* time.toFixed(2): microseconds to hundredths of a second, halves rounded up
toFixed2(time) == (time + 5000) \div 10000

\* video.onloadedmetadata up to the first await of the loop
onloadedmetadata(s, k, duration) ==
    SetStatus([s EXCEPT !.runs[k].duration = duration,
                        !.runs[k].tick = 0,
                        !.runs[k].currentTime =
                            TickTime(0, Interval(duration, scenario.frameCount)),
                        !.runs[k].pc = "seek"], k, "SAMPLING")

AfterSamplingSkips(s, k) ==
    [s EXCEPT !.runs[k].analyzed = TRUE,
              !.runs[k].pc = "analyze"]

\* startAnalysis after sampleFrames resolved, up to the await of analyzeVideo
AfterSampling(s, k) ==
    SetStatus([s EXCEPT !.runs[k].analyzed = TRUE,
                        !.runs[k].pc = "analyze"], k, "ANALYZING")

\* onSeeked: the rest of one pass of the sampling loop, and the loop's exit
onSeeked(s, k) ==
    LET r == s.runs[k]
        F == scenario.frameCount
        interval == Interval(r.duration, F)
        time == TickTime(r.tick, interval)
        frame == [image |-> r.currentTime, label |-> toFixed2(time)]
        s1 == [s EXCEPT !.runs[k].frames = Append(@, frame),
                        !.samplingProgress = RoundPercent(r.tick + 1, F)]
    IN  IF r.tick + 1 < F
        THEN [s1 EXCEPT !.runs[k].tick = r.tick + 1,
                        !.runs[k].currentTime = TickTime(r.tick + 1, interval)]
        ELSE AfterSampling([s1 EXCEPT !.runs[k].tick = r.tick + 1,
                                      !.runs[k].urlLive = FALSE], k)

AfterAnalysisUncached(s, k, analysis) ==
    generateClips(s, k, analysis)

AfterAnalysisCurrentFile(s, k, analysis) ==
    LET fileId == getFileId(s.videoFile)
        historyItem == [id |-> fileId, timestamp |-> s.clock, result |-> analysis]
        s1 == [s EXCEPT !.history = PutHistory(@, historyItem),
                        !.clock = @ + 1]
    IN  generateClips(s1, k, analysis)

\* startAnalysis after analyzeVideo returned, up to the next await that
\* suspends.  fileId is the constant of the closure (App.tsx:206).
AfterAnalysis(s, k, analysis) ==
    LET fileId == getFileId(s.runs[k].file)
        historyItem == [id |-> fileId, timestamp |-> s.clock, result |-> analysis]
        s1 == [s EXCEPT !.history = PutHistory(@, historyItem),
                        !.clock = @ + 1]
    IN  generateClips(s1, k, analysis)

(***************************************************************************)
(* What analyzeVideo throws (src/services/geminiService.ts:73-87).         *)
(***************************************************************************)
AnalysisFailures ==
    {"The AI returned an empty response.",
     "Unexpected end of JSON input",
     "Requested entity was not found.",
     "fetch failed"}

(***************************************************************************)
(* analyzeVideo on what generateContent answers: the call rejects with a   *)
(* message, or resolves with a response whose text is empty, is not JSON,  *)
(* or is the JSON of some value.                                           *)
(***************************************************************************)
Rejection(message) == [kind |-> "rejected", message |-> message]
EmptyResponse == [kind |-> "empty"]
TruncatedResponse == [kind |-> "text", json |-> FALSE]
JsonResponse(value) == [kind |-> "text", json |-> TRUE, value |-> value]

\* a JSON object without a highlights property
SummaryOnly == [summary |-> "nothing to report"]

Responses ==
    {Rejection("Requested entity was not found."), Rejection("fetch failed"),
     EmptyResponse, TruncatedResponse,
     JsonResponse(ResultTwo), JsonResponse(SummaryOnly)}

\* error.message?.includes("Requested entity was not found"), over the
\* messages of the model
EntityNotFound(message) == message = "Requested entity was not found."

\* the body of analyzeVideo's try block: what it returns or throws
analyzeVideo(response) ==
    IF response.kind = "rejected"
    THEN [throws |-> TRUE, message |-> response.message]
    ELSE IF response.kind = "empty"
    THEN [throws |-> TRUE, message |-> "The AI returned an empty response."]
    ELSE IF ~response.json
    THEN [throws |-> TRUE, message |-> "Unexpected end of JSON input"]
    ELSE [throws |-> FALSE, value |-> response.value]

\* the catch of analyzeVideo: openSelectKey() for an entity-not-found failure
\* where window.aistudio offers it; the error is thrown again
AnalysisThrew(s, k, message) ==
    Fail([s EXCEPT !.runs[k].keyPrompt =
                        (EntityNotFound(message) /\ scenario.aistudio)], k, message)

(***************************************************************************)
(* The actions.                                                            *)
(***************************************************************************)
\* <input type="file" onChange>, shown while no file is selected
SelectFile(f) ==
    /\ videoFile = 0
    /\ Becomes([State EXCEPT !.videoFile = f, !.status = "IDLE",
                             !.results = NoResult, !.error = NoError])

ResetKeepsStatus ==
    /\ videoFile # 0
    /\ Becomes([State EXCEPT !.videoFile = 0, !.results = NoResult,
                             !.error = NoError])

\* the Reset button, shown while a file is selected
Reset ==
    /\ videoFile # 0
    /\ Becomes([State EXCEPT !.videoFile = 0, !.results = NoResult,
                             !.status = "IDLE", !.error = NoError])

\* the Analyze button, shown while a file is selected and status is IDLE
StartAnalysis ==
    /\ videoFile # 0
    /\ status = "IDLE"
    /\ Len(runs) < scenario.maxRuns
    /\ Becomes(startAnalysis(State))

LoadedMetadata(k, duration) ==
    /\ runs[k].pc = "meta"
    /\ Becomes(onloadedmetadata(State, k, duration))

\* video.onerror: reject(new Error(...)), caught by startAnalysis.  The handler
\* stays on the element while the loop over the ticks awaits a seek.
VideoError(k) ==
    /\ runs[k].pc \in {"meta", "seek"}
    /\ Becomes(Fail(State, k, "Failed to load video for sampling."))

Seeked(k) ==
    /\ runs[k].pc = "seek"
    /\ Becomes(onSeeked(State, k))

AnalyzeOk(k, payload) ==
    /\ runs[k].pc = "analyze"
    /\ Becomes(AfterAnalysis(State, k, payload))

AnalyzeFail(k, message) ==
    /\ runs[k].pc = "analyze"
    /\ Becomes(AnalysisThrew(State, k, message))

\* generateContent settled with `response`
AnalyzeResponded(k, response) ==
    /\ runs[k].pc = "analyze"
    /\ LET out == analyzeVideo(response)
           s == [State EXCEPT !.runs[k].response = response]
       IN  IF out.throws
           THEN Becomes(AnalysisThrew(s, k, out.message))
           ELSE Becomes(AfterAnalysis(s, k, out.value))

\* loadedmetadata with a duration that is not finite (an unbounded stream):
\* 0 * interval is NaN and the assignment to video.currentTime throws
LoadedMetadataNonFinite(k) ==
    /\ "nonFiniteDuration" \in scenario.hazards
    /\ runs[k].pc = "meta"
    /\ Becomes(SetStatus([State EXCEPT !.runs[k].pc = "hung"], k, "SAMPLING"))

\* the browser gives the seek up without 'seeked' and without 'error'
SeekStalls(k) ==
    /\ "stalledSeek" \in scenario.hazards
    /\ runs[k].pc = "seek"
    /\ Becomes([State EXCEPT !.runs[k].pc = "stalled"])

\* ffmpeg.load resolved: ffmpegRef.current = ffmpeg; setIsEngineAvailable(true)
LoadOk(k) ==
    /\ runs[k].pc = "load"
    /\ Becomes(BeginBatch([State EXCEPT !.ffmpegRef = runs[k].engine,
                                        !.isEngineAvailable = "true",
                                        !.runs[k].ffmpeg = runs[k].engine], k))

\* toBlobURL or ffmpeg.load rejected: setIsEngineAvailable(false); return null
LoadFail(k) ==
    /\ runs[k].pc = "load"
    /\ Becomes(Commit([State EXCEPT !.isEngineAvailable = "false",
                                    !.initFailed = TRUE], k, runs[k].analysis))

\* A file of an engine's working filesystem: `input.<extension>` (App.tsx:175;
\* the files at hand share one extension) or `clip_<i>.mp4` (App.tsx:185).
InputFile(engine) == [engine |-> engine, name |-> "input", i |-> 0]

OutputFile(engine, i) == [engine |-> engine, name |-> "clip", i |-> i]

\* fetchFile and ffmpeg.writeFile resolved
WriteOk(k) ==
    /\ runs[k].pc = "write"
    /\ Becomes(IssueTrim([State EXCEPT !.runs[k].updatedHighlights =
                                            runs[k].analysis.highlights,
                                        !.engineFiles = @ \cup {InputFile(runs[k].ffmpeg)}],
                          k, 1))

WriteFailThrows(k) ==
    /\ runs[k].pc = "write"
    /\ Becomes(Fail(State, k, "writeFile failed"))

\* fetchFile or ffmpeg.writeFile rejected: the outer catch returns analysis
WriteFail(k) ==
    /\ runs[k].pc = "write"
    /\ Becomes(Commit(State, k, runs[k].analysis))

\* ffmpeg.exec resolved: the clip is written to the output file.  (A trim that
\* fails is taken to leave no output file.)
ExecOk(k) ==
    /\ runs[k].pc = "exec"
    /\ Becomes([State EXCEPT !.runs[k].pc = "read",
                             !.runs[k].trimOk = Append(@, "ok"),
                             !.engineFiles = @ \cup {OutputFile(runs[k].ffmpeg, runs[k].i)}])

ExecFailAborts(k) ==
    /\ runs[k].pc = "exec"
    /\ Becomes(Commit([State EXCEPT !.runs[k].trimOk = Append(@, "fail"),
                                    !.runs[k].readOk = Append(@, "none")], k,
                      runs[k].analysis))

ExecFail(k) ==
    /\ runs[k].pc = "exec"
    /\ Becomes(AfterClip([State EXCEPT !.runs[k].trimOk = Append(@, "fail"),
                                       !.runs[k].readOk = Append(@, "none")], k))

ReadOkInPlace(k) ==
    /\ runs[k].pc = "read"
    /\ LET i == runs[k].i
           shared == {n \in 1..Len(history) :
                         /\ history[n].id = getFileId(runs[k].file)
                         /\ history[n].result = runs[k].analysis}
       IN  Becomes(AfterClip(
               [State EXCEPT !.runs[k].updatedHighlights[i].clip = k,
                             !.runs[k].analysis.highlights[i].clip = k,
                             !.runs[k].readOk = Append(@, "ok"),
                             !.history = [n \in 1..Len(history) |->
                                            IF n \in shared
                                            THEN [history[n] EXCEPT
                                                     !.result.highlights[i].clip = k]
                                            ELSE history[n]]], k))

ReadOkBare(k) ==
    /\ runs[k].pc = "read"
    /\ Becomes(AfterClip([State EXCEPT !.runs[k].updatedHighlights[runs[k].i] = [clip |-> k],
                                       !.runs[k].readOk = Append(@, "ok")], k))

\* updatedHighlights[i] = { ...h, clipBlob: blob, clipUrl: URL.createObjectURL(blob) }:
\* a new object at index i of the copy, h and analysis.highlights untouched
ReadOk(k) ==
    /\ runs[k].pc = "read"
    /\ Becomes(AfterClip([State EXCEPT !.runs[k].updatedHighlights[runs[k].i].clip = k,
                                       !.runs[k].readOk = Append(@, "ok")], k))

ReadFail(k) ==
    /\ runs[k].pc = "read"
    /\ Becomes(AfterClip([State EXCEPT !.runs[k].readOk = Append(@, "fail")], k))

\* the jersey filter's <input onChange>
SetTargetJersey(text) ==
    /\ mounted
    /\ targetJersey' = text
    /\ UNCHANGED <<videoFile, status, results, error, history, isEngineAvailable,
                   ffmpegRef, clippingProgress, samplingProgress, runs, clock,
                   engines, initFailed, scenario, storage, gallery, pending,
                   storageErrors, mounted, mount, engineFiles>>

(***************************************************************************)
(* The gallery: handleSaveToGallery and handleRemoveFromGallery, each a    *)
(* click that starts a write of the gallery store and the write's end.     *)
(***************************************************************************)
GalleryId(file, h) == <<getFileId(file), h.timestampSeconds>>

GalleryIds == {gallery[n].id : n \in 1..Len(gallery)}

\* what a gallery action leaves alone
GalleryFrame ==
    UNCHANGED <<videoFile, status, results, history, isEngineAvailable,
                ffmpegRef, clippingProgress, samplingProgress, targetJersey,
                runs, clock, engines, initFailed, scenario, storage, mounted,
                mount, engineFiles>>

\* the heart button of card n of the match log, not saved yet: onSave
SaveToGallery(n) ==
    /\ mounted
    /\ videoFile # 0
    /\ status = "COMPLETED"
    /\ Cardinality(pending) < MaxPending
    /\ n \in 1..Len(filteredHighlights(results, targetJersey))
    /\ LET h == filteredHighlights(results, targetJersey)[n]
           id == GalleryId(videoFile, h)
       IN  /\ id \notin GalleryIds
           /\ pending' = pending \cup {[op |-> "save", id |-> id, highlight |-> h]}
    /\ UNCHANGED <<gallery, error, storageErrors>>
    /\ GalleryFrame

\* the heart button of a saved card, in the match log or in the gallery: onRemove
RemoveFromGallery(id) ==
    /\ mounted
    /\ id \in GalleryIds
    /\ Cardinality(pending) < MaxPending
    /\ pending' = pending \cup {[op |-> "remove", id |-> id, highlight |-> NoResult]}
    /\ UNCHANGED <<gallery, error, storageErrors>>
    /\ GalleryFrame

\* saveToGallery resolved: setGallery(prev => [...prev.filter(i => i.id !== id), item])
SaveOk(w) ==
    /\ mounted
    /\ w.op = "save"
    /\ pending' = pending \ {w}
    /\ gallery' = FilterOut(gallery, w.id) \o <<[id |-> w.id, highlight |-> w.highlight]>>
    /\ UNCHANGED <<error, storageErrors>>
    /\ GalleryFrame

\* saveToGallery rejected: catch (e) { setError("Storage full."); }
SaveFail(w) ==
    /\ mounted
    /\ "storageFailure" \in scenario.hazards
    /\ w.op = "save"
    /\ pending' = pending \ {w}
    /\ error' = "Storage full."
    /\ storageErrors' = storageErrors \cup {[op |-> "saveToGallery", caught |-> TRUE]}
    /\ UNCHANGED gallery
    /\ GalleryFrame

\* removeFromGallery resolved: setGallery(prev => prev.filter(i => i.id !== id))
RemoveOk(w) ==
    /\ mounted
    /\ w.op = "remove"
    /\ pending' = pending \ {w}
    /\ gallery' = FilterOut(gallery, w.id)
    /\ UNCHANGED <<error, storageErrors>>
    /\ GalleryFrame

\* removeFromGallery rejected: the await throws in handleRemoveFromGallery,
\* whose promise nobody awaits
RemoveFail(w) ==
    /\ mounted
    /\ "storageFailure" \in scenario.hazards
    /\ w.op = "remove"
    /\ pending' = pending \ {w}
    /\ storageErrors' = storageErrors \cup {[op |-> "removeFromGallery", caught |-> FALSE]}
    /\ UNCHANGED <<gallery, error>>
    /\ GalleryFrame

GalleryStep ==
    \/ \E n \in 1..Len(filteredHighlights(results, targetJersey)) : SaveToGallery(n)
    \/ \E id \in GalleryIds : RemoveFromGallery(id)
    \/ \E w \in pending : SaveOk(w) \/ SaveFail(w) \/ RemoveOk(w) \/ RemoveFail(w)

RunStep(k) ==
    \/ \E duration \in scenario.durations : LoadedMetadata(k, duration)
    \/ VideoError(k)
    \/ Seeked(k)
    \/ \E payload \in scenario.payloads : AnalyzeOk(k, payload)
    \/ \E message \in scenario.failures : AnalyzeFail(k, message)
    \/ \E response \in scenario.responses : AnalyzeResponded(k, response)
    \/ LoadedMetadataNonFinite(k)
    \/ SeekStalls(k)
    \/ LoadOk(k)
    \/ LoadFail(k)
    \/ WriteOk(k)
    \/ WriteFail(k)
    \/ ExecOk(k)
    \/ ExecFail(k)
    \/ ReadOk(k)
    \/ ReadFail(k)

Next ==
    \/ \E f \in scenario.files : SelectFile(f)
    \/ Reset
    \/ StartAnalysis
    \/ \E k \in 1..Len(runs) : RunStep(k)

(***************************************************************************)
(* The state after mount.  history is what the mount effect loads from     *)
(* localStorage (App.tsx:34-38): what an earlier session persisted.        *)
(***************************************************************************)
Mounted(saved, sc) ==
    /\ videoFile = 0
    /\ status = "IDLE"
    /\ results = NoResult
    /\ error = NoError
    /\ history = saved
    /\ isEngineAvailable = "null"
    /\ ffmpegRef = 0
    /\ clippingProgress = 0
    /\ samplingProgress = 0
    /\ targetJersey = <<>>
    /\ runs = <<>>
    /\ clock = Len(saved) + 1
    /\ engines = 0
    /\ initFailed = FALSE
    /\ scenario = sc
    /\ storage = saved
    /\ gallery = <<>>
    /\ pending = {}
    /\ storageErrors = {}
    /\ mounted = TRUE
    /\ mount = [pc |-> "mounted", queued |-> <<>>]
    /\ engineFiles = {}

\* What an earlier session left in localStorage: n entries, newest first.
SavedResult(id) == IF id = 1 THEN ResultTwo ELSE ResultNone

SavedHistory(n) ==
    [j \in 1..n |-> [id |-> n + 1 - j, timestamp |-> n + 1 - j,
                     result |-> SavedResult(n + 1 - j)]]

\* The files at hand: file 1 (the oldest entry of a saved history) and files
\* no saved history knows.
Files == {1} \cup ((HistoryLimit + 1)..(HistoryLimit + NumFiles - 1))

\* The pipeline with a short sampling loop, in a first session (nothing
\* persisted) or in a session that starts with a full history.
Init ==
    \E saved \in {<<>>, SavedHistory(HistoryLimit)} :
        Mounted(saved, [frameCount |-> ShortFrameCount, maxRuns |-> MaxRuns,
                        files |-> Files, durations |-> {120000},
                        payloads |-> Payloads, failures |-> AnalysisFailures,
                        responses |-> {}, hazards |-> {}, aistudio |-> TRUE])

Spec == Init /\ [][Next]_vars

(***************************************************************************)
(* The sampler on its own: the program's frame count, one run, several     *)
(* durations.                                                              *)
(***************************************************************************)
SampleDurations == {120000, 1234, 300}

InitSample ==
    Mounted(<<>>, [frameCount |-> TARGET_FRAME_COUNT, maxRuns |-> 1,
                   files |-> {1}, durations |-> SampleDurations,
                   payloads |-> Payloads, failures |-> AnalysisFailures,
                   responses |-> {}, hazards |-> {}, aistudio |-> TRUE])

SpecSample == InitSample /\ [][Next]_vars

(***************************************************************************)
(* Properties.                                                             *)
(***************************************************************************)
Runs == 1..Len(runs)

HistoryIds(h) == {h[n].id : n \in 1..Len(h)}

\* a result with the clip data of its highlights taken away
WithoutClips(result) ==
    [result EXCEPT !.highlights = [n \in 1..Len(result.highlights) |->
                                      [result.highlights[n] EXCEPT !.clip = 0]]]

C2_AsStated ==
    \A k \in Runs :
        runs[k].priorRun => ~runs[k].sampled /\ ~runs[k].analyzed

\* C2 amended: a startAnalysis that finds an entry for the file's identity in
\* the history calls neither sampleFrames nor analyzeVideo, and the result it
\* commits has the summary and the highlights of that entry, in order, clip
\* data aside.
C2_CachedRunReuses ==
    \A k \in Runs :
        LET r == runs[k] IN
        \A n \in 1..Len(r.history) :
            (r.history[n].id = r.file /\ \A m \in 1..(n - 1) : r.history[m].id # r.file)
            => /\ ~r.sampled
               /\ ~r.analyzed
               /\ r.pc # "error"
               /\ r.pc = "completed" => WithoutClips(r.output) = r.history[n].result

\* a second run on a file analysed by a first run has completed from the cache
C2_Witness ==
    \E j, k \in Runs :
        /\ j < k
        /\ runs[j].file = runs[k].file
        /\ runs[j].analyzed
        /\ runs[k].cacheHit
        /\ runs[k].pc = "completed"
        /\ runs[k].output # runs[k].analysis

\* C3: the history never holds more than ten entries, and an insertion of a
\* new identity into a history of ten drops exactly the entry written longest
\* ago and keeps the other nine, in order, behind the new entry.
C3_BoundedEviction ==
    /\ [](Len(history) <= 10)
    /\ [][(/\ Len(history) = 10
           /\ history' # history
           /\ history'[1].id \notin HistoryIds(history))
          => /\ Len(history') = 10
             /\ SubSeq(history', 2, 10) = SubSeq(history, 1, 9)
             /\ \A n \in 1..9 : history[n].timestamp > history[10].timestamp
             /\ history[10].id \notin HistoryIds(history')]_vars

\* a new identity was analysed while the history held ten entries
C3_Witness ==
    /\ Len(history) = 10
    /\ history[1].id = 11
    /\ history[10].id = 2

\* C4: the history never holds two entries of one identity, and an insertion
\* for an identity already present leaves the same identities and the same
\* number of entries, the one of that identity holding the result just
\* written.
C4_OneEntryPerIdentity ==
    /\ [](\A m, n \in 1..Len(history) : m # n => history[m].id # history[n].id)
    /\ [][(/\ history' # history
           /\ history'[1].id \in HistoryIds(history))
          => /\ Len(history') = Len(history)
             /\ HistoryIds(history') = HistoryIds(history)
             /\ \A n \in 2..Len(history') : history'[n].id # history'[1].id
             /\ \A n \in 1..Len(history) : history'[1].timestamp > history[n].timestamp
             /\ \E k \in Runs : /\ runs[k].pc = "analyze"
                                /\ runs'[k].pc # "analyze"
                                /\ history'[1].result = runs'[k].analysis]_vars

\* two runs on one file both missed the cache and both analysed it, with
\* different answers; the history holds one entry for the file
C4_Witness ==
    \E j, k \in Runs :
        /\ j # k
        /\ runs[j].file = runs[k].file
        /\ ~runs[j].cacheHit /\ ~runs[k].cacheHit
        /\ runs[j].analysis # NoResult /\ runs[k].analysis # NoResult
        /\ runs[j].analysis # runs[k].analysis
        /\ Len(history) = 10

\* the run is inside generateClips, at an operation of the engine
AtEngine(k) == runs[k].pc \in {"write", "exec", "read"}

\* C5: a generateClips call made while the engine is Unavailable (an
\* initialization has failed and isEngineAvailable is false) performs no
\* write, trim or read on the engine and returns the result it was given,
\* no highlight with clip data.
C5_UnavailableSkipsClipping ==
    \A k \in Runs :
        runs[k].unavailableAtCall
        => /\ ~AtEngine(k)
           /\ runs[k].trimStart = <<>>
           /\ runs[k].pc = "completed" => runs[k].output = runs[k].analysis

\* C6: no tryLoadFFmpeg starts an initialization of the engine after an
\* initialization of this session has failed.
C6_NoInitAfterFailure ==
    \A k \in Runs : ~runs[k].initAfterFailure

\* C8: in a batch, highlight j has clip data exactly when its own trim and its
\* own read-back succeeded; a batch that has ended after the input was written
\* has attempted the trim of every highlight and returns the highlights it
\* built; a batch in progress has attempted every index before the current one.
C8_PerClipFailureIsolated ==
    \A k \in Runs :
        LET r == runs[k]
            n == Len(r.updatedHighlights)
        IN  /\ \A j \in 1..n :
                  hasClip(r.updatedHighlights[j])
                  <=> /\ j <= Len(r.readOk)
                      /\ r.trimOk[j] = "ok"
                      /\ r.readOk[j] = "ok"
            /\ (r.pc = "completed" /\ n > 0)
               => /\ Len(r.trimOk) = n
                  /\ Len(r.trimStart) = n
                  /\ r.output.highlights = r.updatedHighlights
            /\ r.pc \in {"exec", "read"}
               => /\ Len(r.trimStart) = r.i
                  /\ Len(r.readOk) = r.i - 1

\* a batch has ended in which the first trim failed and the second highlight
\* got its clip
C8_Witness ==
    \E k \in Runs :
        /\ runs[k].pc = "completed"
        /\ runs[k].trimOk = <<"fail", "ok">>
        /\ ~hasClip(runs[k].output.highlights[1])
        /\ hasClip(runs[k].output.highlights[2])

\* C10: the trim requested for a highlight at t ms starts at t - 5000 when
\* t >= 5000 and at 0 otherwise, never below 0, and asks for 10000 ms.
C10_TrimWindow ==
    \A k \in Runs :
        \A j \in 1..Len(runs[k].trimStart) :
            LET t == runs[k].analysis.highlights[j].timestampSeconds IN
            /\ t >= 5000 => runs[k].trimStart[j] = t - 5000
            /\ t < 5000 => runs[k].trimStart[j] = 0
            /\ runs[k].trimStart[j] >= 0
            /\ runs[k].trimDuration[j] = 10000

\* the trims of a highlight at 45.3 s and of one at 3 s have been requested
C10_Witness ==
    \E k \in Runs :
        /\ runs[k].analysis = ResultTwo
        /\ runs[k].trimStart = <<40300, 0>>
        /\ runs[k].trimDuration = <<10000, 10000>>

(***************************************************************************)
(* Fairness: every operation handed to the engine (load, writeFile, exec,  *)
(* readFile) settles, one way or the other.                                *)
(***************************************************************************)
EngineSettles(k) ==
    /\ k \in Runs
    /\ \/ LoadOk(k) \/ LoadFail(k)
       \/ WriteOk(k) \/ WriteFail(k)
       \/ ExecOk(k) \/ ExecFail(k)
       \/ ReadOk(k) \/ ReadFail(k)

\* One file, first fresh and then cached or fresh again, every answer of the
\* service with highlights.
InitFair ==
    Mounted(<<>>, [frameCount |-> 1, maxRuns |-> MaxRuns, files |-> {1},
                   durations |-> {120000}, payloads |-> {ResultTwo},
                   failures |-> {"fetch failed"},
                   responses |-> {}, hazards |-> {}, aistudio |-> TRUE])

SpecFair ==
    /\ InitFair
    /\ [][Next]_vars
    /\ \A k \in 1..MaxRuns : WF_vars(EngineSettles(k))

\* the run is inside generateClips, suspended at the engine
InGenerateClips(k) == k \in Runs /\ runs[k].pc \in {"load", "write", "exec", "read"}

HasCompleted(k) == k \in Runs /\ runs[k].pc = "completed"

\* C7: a run suspended inside generateClips (at the engine's initialization,
\* the write of the input, a trim or a read-back) eventually commits a result
\* and sets COMPLETED, and no step takes it from there to the catch of
\* startAnalysis, whichever of these operations fail.
C7_ClippingCompletes ==
    /\ \A k \in 1..MaxRuns : InGenerateClips(k) ~> HasCompleted(k)
    /\ [][\A k \in Runs : InGenerateClips(k) => runs'[k].pc # "error"]_vars

\* a run that found its file in the cache has completed although the write of
\* the input failed, and a fresh run although a trim and a read-back failed
C7_Witness ==
    \E j, k \in Runs :
        /\ runs[j].cacheHit /\ runs[j].pc = "completed"
        /\ runs[j].unavailableAtCall = FALSE /\ runs[j].engine = 0
        /\ runs[j].updatedHighlights = <<>> /\ runs[j].output = ResultTwo
        /\ ~runs[k].cacheHit /\ runs[k].pc = "completed"
        /\ runs[k].trimOk = <<"fail", "ok">> /\ runs[k].readOk = <<"none", "fail">>

(***************************************************************************)
(* The jersey filter on its own: a committed result of up to two           *)
(* highlights, and the user typing into the filter box.                    *)
(***************************************************************************)
FilterJerseys ==
    {Jersey(<<"7">>), Jersey(<<"2", "3">>), Jersey(<<"1", "7">>),
     Jersey(<<"U", "n", "k", "n", "o", "w", "n">>), NoJersey}

FilterTexts ==
    {<<>>, <<"7">>, <<"2">>, <<"2", "3">>, <<"3", "2">>, <<"U", "N">>,
     <<"u", "n", "k", "n", "o", "w", "n">>, <<" ">>, <<"7", " ">>, <<" ", "2", "3">>}

FilterResults ==
    LET H(j) == Highlight(45300, "00:45", "Goal", j) IN
    {[highlights |-> <<>>, summary |-> "s"]}
    \cup {[highlights |-> <<H(a)>>, summary |-> "s"] : a \in FilterJerseys}
    \cup {[highlights |-> <<H(a), H(b)>>, summary |-> "s"] :
             a \in FilterJerseys, b \in FilterJerseys}

InitFilter ==
    /\ \E r \in FilterResults : results = r
    /\ videoFile = 1
    /\ status = "COMPLETED"
    /\ error = NoError
    /\ history = <<>>
    /\ isEngineAvailable = "null"
    /\ ffmpegRef = 0
    /\ clippingProgress = 0
    /\ samplingProgress = 0
    /\ targetJersey = <<>>
    /\ runs = <<>>
    /\ clock = 1
    /\ engines = 0
    /\ initFailed = FALSE
    /\ scenario = [frameCount |-> 1, maxRuns |-> 0, files |-> {1},
                   durations |-> {}, payloads |-> {}, failures |-> {},
                   responses |-> {}, hazards |-> {}, aistudio |-> TRUE]
    /\ storage = <<>>
    /\ gallery = <<>>
    /\ pending = {}
    /\ storageErrors = {}
    /\ mounted = TRUE
    /\ mount = [pc |-> "mounted", queued |-> <<>>]
    /\ engineFiles = {}

NextFilter == \E text \in FilterTexts : SetTargetJersey(text)

SpecFilter == InitFilter /\ [][NextFilter]_vars

\* str contains n, letter case aside
ContainsIgnoringCase(str, n) ==
    \E off \in 0..(Len(str) - Len(n)) :
        \A q \in 1..Len(n) : LowerChar(str[off + q]) = LowerChar(n[q])

\* the highlight has a jersey number that contains n, letter case aside
JerseyContains(h, n) ==
    h.playerJerseyNumber.defined /\ ContainsIgnoringCase(h.playerJerseyNumber.str, n)

\* out is exactly the elements of hs whose jersey number contains n, in the order of hs
IsJerseyFilter(out, hs, n) ==
    LET kept == {m \in 1..Len(hs) : JerseyContains(hs[m], n)} IN
    /\ Len(out) = Cardinality(kept)
    /\ \A m \in kept : out[Cardinality({q \in kept : q <= m})] = hs[m]

\* t without the spaces at its ends
Stripped(t) ==
    LET solid == {q \in 1..Len(t) : t[q] # " "} IN
    IF solid = {} THEN <<>>
    ELSE SubSeq(t, CHOOSE q \in solid : \A o \in solid : q <= o,
                   CHOOSE q \in solid : \A o \in solid : q >= o)

\* C9 as stated: the empty filter text gives the highlights unchanged, any
\* other text n exactly the highlights whose jersey number contains n, letter
\* case aside, in order.
C9_AsStated ==
    results # NoResult
    => /\ targetJersey = <<>>
          => filteredHighlights(results, targetJersey) = results.highlights
       /\ targetJersey # <<>>
          => IsJerseyFilter(filteredHighlights(results, targetJersey),
                            results.highlights, targetJersey)

\* C9 amended: a filter text that is empty once the spaces at its ends are
\* removed gives the highlights unchanged; any other text gives exactly the
\* highlights whose jersey number contains the text without the spaces at its
\* ends, letter case aside, in order.
C9_FilterByTrimmedText ==
    results # NoResult
    => /\ Stripped(targetJersey) = <<>>
          => filteredHighlights(results, targetJersey) = results.highlights
       /\ Stripped(targetJersey) # <<>>
          => IsJerseyFilter(filteredHighlights(results, targetJersey),
                            results.highlights, Stripped(targetJersey))

\* jerseys "7" and "23" filtered by "7": only the first is left
C9_Witness ==
    /\ results # NoResult
    /\ Len(results.highlights) = 2
    /\ results.highlights[1].playerJerseyNumber = Jersey(<<"7">>)
    /\ results.highlights[2].playerJerseyNumber = Jersey(<<"2", "3">>)
    /\ targetJersey = <<"7">>
    /\ filteredHighlights(results, targetJersey) = <<results.highlights[1]>>

(***************************************************************************)
(* The stages of a run: the status values the run itself sets, in order.   *)
(***************************************************************************)
\* seq without the repetition of an element right after itself
RECURSIVE Dedup(_)
Dedup(seq) ==
    IF Len(seq) <= 1 THEN seq
    ELSE IF seq[1] = seq[2] THEN Dedup(Tail(seq))
         ELSE <<seq[1]>> \o Dedup(Tail(seq))

IsPrefix(p, q) == Len(p) <= Len(q) /\ SubSeq(q, 1, Len(p)) = p

Stages == <<"SAMPLING", "ANALYZING", "CLIPPING", "COMPLETED">>

\* q is a prefix of full, or a prefix of full short of its last element
\* followed by ERROR
InOrderOrError(q, full) ==
    \/ IsPrefix(q, full)
    \/ /\ q # <<>>
       /\ q[Len(q)] = "ERROR"
       /\ IsPrefix(SubSeq(q, 1, Len(q) - 1), SubSeq(full, 1, Len(full) - 1))

\* the run had nothing to clip or no engine to clip with
NothingToClip(r) ==
    r.analysis # NoResult /\ (Len(r.analysis.highlights) = 0 \/ r.ffmpeg = 0)

\* C11 as stated: the status values a run without a cache hit sets, after
\* Idle, are Sampling, Analyzing, Clipping, Completed in that order, or a
\* prefix of these followed by Error; no stage is skipped.
C11_AsStated ==
    \A k \in Runs :
        ~runs[k].cacheHit => InOrderOrError(Dedup(runs[k].statuses), Stages)

\* C11 amended: the status values a run without a cache hit sets are Sampling,
\* Analyzing, Clipping, Completed in that order, or a prefix of these followed
\* by Error, except that Clipping is left out when the analysis has no
\* highlights or no engine is available; the run then goes from Analyzing to
\* Completed.
C11_StagesInOrder ==
    \A k \in Runs :
        LET r == runs[k]
            q == Dedup(r.statuses)
        IN  ~r.cacheHit
            => /\ \/ InOrderOrError(q, Stages)
                  \/ q = <<"SAMPLING", "ANALYZING", "COMPLETED">>
               /\ q = <<"SAMPLING", "ANALYZING", "COMPLETED">> <=>
                      (r.pc = "completed" /\ NothingToClip(r))
               /\ r.pc = "completed" <=> q[Len(q)] = "COMPLETED"
               /\ r.pc = "error" <=> q[Len(q)] = "ERROR"

\* one fresh run went through all four stages, another went from Analyzing to
\* Completed because its engine did not load
C11_Witness ==
    \E j, k \in Runs :
        /\ ~runs[j].cacheHit
        /\ Dedup(runs[j].statuses) = Stages
        /\ ~runs[k].cacheHit
        /\ Dedup(runs[k].statuses) = <<"SAMPLING", "ANALYZING", "COMPLETED">>
        /\ Len(runs[k].analysis.highlights) = 2

\* C12 as stated: a run that found its file in the history sets Clipping and
\* then Completed, and never Sampling or Analyzing.
C12_AsStated ==
    \A k \in Runs :
        runs[k].cacheHit
        => /\ IsPrefix(Dedup(runs[k].statuses), <<"CLIPPING", "COMPLETED">>)
           /\ runs[k].pc = "completed"
              => Dedup(runs[k].statuses) = <<"CLIPPING", "COMPLETED">>

\* C12 amended: a run that found its file in the history never sets Sampling
\* or Analyzing and never samples or analyses; it sets Clipping and then
\* Completed, or Completed alone when the cached result has no highlights or
\* no engine is available.
C12_CachedRunStages ==
    \A k \in Runs :
        LET r == runs[k]
            q == r.statuses
        IN  r.cacheHit
            => /\ ~r.sampled /\ ~r.analyzed
               /\ \A n \in 1..Len(q) : q[n] \notin {"SAMPLING", "ANALYZING", "ERROR"}
               /\ \/ IsPrefix(q, <<"CLIPPING", "COMPLETED">>)
                  \/ q = <<"COMPLETED">>
               /\ q = <<"COMPLETED">> <=> (r.pc = "completed" /\ NothingToClip(r))
               /\ q = <<"CLIPPING", "COMPLETED">> <=> (r.pc = "completed" /\ ~NothingToClip(r))

\* a cached result with highlights has been clipped and committed
C12_Witness ==
    \E k \in Runs :
        /\ runs[k].cacheHit
        /\ runs[k].statuses = <<"CLIPPING", "COMPLETED">>
        /\ \E n \in 1..Len(runs[k].output.highlights) : hasClip(runs[k].output.highlights[n])

\* the run is in sampleFrames or awaits analyzeVideo
BeforeClipping(k) == runs[k].pc \in {"meta", "seek", "analyze"}

\* C13: a run whose sampling or analysis fails sets status Error and an error
\* text that is not empty and is the failure's message, with results null; it
\* has committed no result and has never entered the clip stage.
C13_FailureEndsInError ==
    /\ [][\A k \in Runs :
             (BeforeClipping(k) /\ runs'[k].pc = "error")
             => /\ status' = "ERROR"
                /\ error' # NoError /\ error' # "" /\ error' = runs'[k].thrown
                /\ results' = NoResult]_vars
    /\ [](\A k \in Runs :
             runs[k].pc = "error"
             => /\ runs[k].output = NoResult
                /\ runs[k].trimStart = <<>>
                /\ \A n \in 1..Len(runs[k].statuses) :
                      runs[k].statuses[n] \notin {"CLIPPING", "COMPLETED"})

\* C14: a completion of a run that the user has abandoned (no file is
\* selected any more) or that is older than another run changes none of
\* status, results, error and the two progress values.
C14_AbandonedRunIsInert ==
    [][\A k \in Runs :
          (runs'[k] # runs[k] /\ (videoFile = 0 \/ k < Len(runs)))
          => UNCHANGED <<status, results, error, clippingProgress, samplingProgress>>]_vars

\* C15: no two runs have an operation outstanding on the same engine instance
\* (so no write of the input while a trim reads it).
C15_OneEngineOperation ==
    \A j, k \in Runs :
        (j # k /\ AtEngine(j) /\ AtEngine(k)) => runs[j].ffmpeg # runs[k].ffmpeg

(***************************************************************************)
(* Sampling a source that misbehaves: a duration of zero or one that is    *)
(* not finite, a seek that never signals.                                  *)
(***************************************************************************)
InitHazard ==
    Mounted(<<>>, [frameCount |-> ShortFrameCount, maxRuns |-> MaxRuns,
                   files |-> {1}, durations |-> {0, 120000},
                   payloads |-> {ResultNone}, failures |-> {"fetch failed"},
                   responses |-> {}, hazards |-> {"nonFiniteDuration", "stalledSeek"},
                   aistudio |-> TRUE])

SpecHazard == InitHazard /\ [][Next]_vars

\* C16: when the metadata of a run's video load with a duration of zero, or
\* with none, sampleFrames rejects and the run is in Error; no run gets frames
\* from sampleFrames for such a video.
C16_ZeroDurationFails ==
    /\ [][\A k \in Runs :
             (runs[k].pc = "meta" /\ runs'[k].pc # "meta" /\ runs'[k].duration = 0)
             => runs'[k].pc = "error" /\ status' = "ERROR"]_vars
    /\ [](\A k \in Runs : runs[k].analyzed => runs[k].duration > 0)

\* C17: a run whose seek failed is in Error, a run whose seek never signals
\* still has something pending that ends the sampling, and sampleFrames never
\* resolves with fewer than the frame count's frames.
C17_SeekFailureFails ==
    /\ [][\A k \in Runs :
             (runs[k].pc = "seek" /\ runs'[k].pc \notin {"seek", "analyze"})
             => runs'[k].pc = "error" /\ status' = "ERROR"]_vars
    /\ [](\A k \in Runs :
             /\ runs[k].pc = "stalled" => ENABLED RunStep(k)
             /\ runs[k].analyzed => Len(runs[k].frames) = scenario.frameCount)

(***************************************************************************)
(* The analysis service answering in every way it can.                     *)
(***************************************************************************)
InitService ==
    \E prompt \in BOOLEAN :
        Mounted(<<>>, [frameCount |-> 1, maxRuns |-> MaxRuns, files |-> {1},
                       durations |-> {120000}, payloads |-> {},
                       failures |-> {}, responses |-> Responses,
                       hazards |-> {}, aistudio |-> prompt])

SpecService == InitService /\ [][Next]_vars

\* value is an object with a highlights list and a summary
HasSchema(value) == {"highlights", "summary"} \subseteq DOMAIN value

\* the response carries a text that decodes to the declared schema
Decodable(response) ==
    response.kind = "text" /\ response.json /\ HasSchema(response.value)

\* C18: analyzeVideo returns only what decodes to the declared schema: a run
\* whose response was empty has failed with the empty-response error, a run
\* whose response does not decode to the schema with the parse failure, and
\* nothing without a highlights list is passed to generateClips or held in the
\* history.
C18_OnlySchemaValuesReturned ==
    /\ \A k \in Runs :
          LET r == runs[k] IN
          /\ r.response.kind = "empty"
             => r.pc = "error" /\ r.thrown = "The AI returned an empty response."
          /\ (r.response.kind = "text" /\ ~Decodable(r.response))
             => r.pc = "error" /\ r.thrown = "Unexpected end of JSON input"
          /\ r.analysis # NoResult => HasSchema(r.analysis)
    /\ \A n \in 1..Len(history) : HasSchema(history[n].result)

\* C19: a run whose analysis failed with entity-not-found has opened the key
\* prompt and is not in Error; a run whose analysis failed otherwise is in
\* Error.
C19_AuthFailurePrompts ==
    \A k \in Runs :
        LET r == runs[k] IN
        (r.analyzed /\ r.thrown # "" /\ r.pc \notin {"analyze"})
        => IF EntityNotFound(r.thrown)
           THEN r.keyPrompt /\ r.pc # "error"
           ELSE r.pc = "error"

(***************************************************************************)
(* One analysis and the gallery, with a storage whose writes may fail.     *)
(***************************************************************************)
InitStorage ==
    Mounted(<<>>, [frameCount |-> 1, maxRuns |-> 1, files |-> {1},
                   durations |-> {120000}, payloads |-> {ResultTwo},
                   failures |-> {"fetch failed"}, responses |-> {},
                   hazards |-> {"storageFailure"}, aistudio |-> TRUE])

NextStorage == Next \/ GalleryStep

SpecStorage == InitStorage /\ [][NextStorage]_vars

\* C20: a gallery or history write that fails is caught, is reported in the
\* error text and leaves the component mounted with its gallery list as it
\* was, and a failed gallery write leaves results and status as they were.
C20_StorageFailureContained ==
    [][\A e \in storageErrors' \ storageErrors :
          /\ e.caught
          /\ error' # NoError
          /\ mounted'
          /\ gallery' = gallery
          /\ e.op # "persist history" => results' = results /\ status' = status]_vars

(***************************************************************************)
(* Mounting after a restart.  The page is loaded with what an earlier      *)
(* session persisted; the component has rendered once with its initial     *)
(* state (history = []) and its two effects are about to run:              *)
(*   effect 1 (App.tsx:34-38) reads localStorage and calls setHistory,     *)
(*            which takes effect at the next render;                       *)
(*   effect 2 (App.tsx:63-65) writes the history of the render it belongs  *)
(*            to into localStorage.                                        *)
(* The entry point renders <React.StrictMode><App/></React.StrictMode>: a  *)
(* development build runs the effects of a mount a second time before the  *)
(* next render, a production build does not.  A key that was never written *)
(* behaves as a stored "[]" from effect 2 on.                              *)
(***************************************************************************)
\* effect 1, then effect 2, of the render that showed `rendered`
RunMountEffects(m, stored, rendered, nextPc) ==
    [pc |-> nextPc,
     queued |-> Append(m.queued, stored),   \* setHistory(JSON.parse(savedHistory))
     stored |-> rendered]                   \* setItem(CACHE_KEY, JSON.stringify(history))

\* the effects of the first commit
MountEffects ==
    /\ ~mounted
    /\ mount.pc = "rendered"
    /\ LET m == RunMountEffects(mount, storage, history,
                                IF "strictMode" \in scenario.hazards
                                THEN "remount" ELSE "update")
       IN  /\ mount' = [pc |-> m.pc, queued |-> m.queued]
           /\ storage' = m.stored
    /\ UNCHANGED <<videoFile, status, results, error, history, isEngineAvailable,
                   ffmpegRef, clippingProgress, samplingProgress, targetJersey,
                   runs, clock, engines, initFailed, scenario, gallery, pending,
                   storageErrors, mounted, engineFiles>>

\* StrictMode: the effects of the mount run again, before any render
StrictRemount ==
    /\ ~mounted
    /\ mount.pc = "remount"
    /\ LET m == RunMountEffects(mount, storage, history, "update")
       IN  /\ mount' = [pc |-> m.pc, queued |-> m.queued]
           /\ storage' = m.stored
    /\ UNCHANGED <<videoFile, status, results, error, history, isEngineAvailable,
                   ffmpegRef, clippingProgress, samplingProgress, targetJersey,
                   runs, clock, engines, initFailed, scenario, gallery, pending,
                   storageErrors, mounted, engineFiles>>

\* The render of the queued setHistory calls (the last one wins) and effect 2
\* of that render: the history is a new array, so the effect runs.
Rerender ==
    /\ ~mounted
    /\ mount.pc = "update"
    /\ history' = mount.queued[Len(mount.queued)]
    /\ storage' = history'
    /\ mount' = [pc |-> "mounted", queued |-> <<>>]
    /\ mounted' = TRUE
    /\ UNCHANGED <<videoFile, status, results, error, isEngineAvailable,
                   ffmpegRef, clippingProgress, samplingProgress, targetJersey,
                   runs, clock, engines, initFailed, scenario, gallery, pending,
                   storageErrors, engineFiles>>

\* The page just loaded: the initial state of every useState, the storage of
\* the earlier session (kept in scenario.saved for the properties), a
\* development build ("strictMode") or a production build.
InitMount ==
    /\ \E n \in 0..NumFiles, build \in {{}, {"strictMode"}} :
           /\ storage = SavedHistory(n)
           /\ clock = n + 1
           /\ scenario = [frameCount |-> ShortFrameCount, maxRuns |-> 1,
                          files |-> Files, durations |-> {120000},
                          payloads |-> Payloads, failures |-> AnalysisFailures,
                          responses |-> {}, hazards |-> build, aistudio |-> TRUE,
                          saved |-> SavedHistory(n)]
    /\ videoFile = 0
    /\ status = "IDLE"
    /\ results = NoResult
    /\ error = NoError
    /\ history = <<>>
    /\ isEngineAvailable = "null"
    /\ ffmpegRef = 0
    /\ clippingProgress = 0
    /\ samplingProgress = 0
    /\ targetJersey = <<>>
    /\ runs = <<>>
    /\ engines = 0
    /\ initFailed = FALSE
    /\ gallery = <<>>
    /\ pending = {}
    /\ storageErrors = {}
    /\ mounted = FALSE
    /\ mount = [pc |-> "rendered", queued |-> <<>>]
    /\ engineFiles = {}

NextMount == MountEffects \/ StrictRemount \/ Rerender \/ Next

SpecMount == InitMount /\ [][NextMount]_vars

\* C21: history survives a restart.  Once the application is mounted again
\* (the double invocation of the mount effects under React.StrictMode
\* included) and before any analysis of the new session, the in-memory
\* history and the persisted history both equal what was persisted before
\* the restart; and at no point of mounting has a non-empty persisted history
\* been overwritten with an empty one.
C21_HistorySurvivesRestart ==
    /\ (mount.pc = "mounted" /\ runs = <<>>)
           => (history = scenario.saved /\ storage = scenario.saved)
    /\ (mount.pc # "mounted" /\ scenario.saved # <<>>) => storage # <<>>

\* analyzeVideo has returned to run k in this step
Analysed(k) ==
    /\ ~runs[k].cacheHit
    /\ runs[k].analysis = NoResult
    /\ runs'[k].analysis # NoResult

EntriesOf(h, id) == {n \in 1..Len(h) : h[n].id = id}

\* C22: a history entry is created only after a successful analysis.  The
\* history changes only in the step in which analyzeVideo returns to a run
\* (so a run that fails before or in the analysis, and an engine step that
\* fails or succeeds, leave it as it was); that step is taken from the
\* analysis stage, before any clipping of the run, and after it the history
\* holds exactly one entry for the run's file: the newest, with the result
\* analyzeVideo returned.
C22_EntryOnlyAfterAnalysis ==
    [][/\ history' # history => \E k \in Runs : Analysed(k)
       /\ \A k \in Runs :
              Analysed(k)
              => /\ runs[k].pc = "analyze"
                 /\ runs[k].trimStart = <<>>
                 /\ Cardinality(EntriesOf(history', getFileId(runs[k].file))) = 1
                 /\ history'[1].id = getFileId(runs[k].file)
                 /\ history'[1].result = runs'[k].analysis]_vars

\* a run whose analysis succeeded and whose clipping ended with a failed trim
\* or read has its entry in the history, next to a run that failed and left
\* none
C22_Witness ==
    \E j, k \in Runs :
        /\ runs[j].pc = "error"
        /\ runs[j].analysis = NoResult
        /\ EntriesOf(history, getFileId(runs[j].file)) = {}
        /\ ~runs[k].cacheHit
        /\ runs[k].pc = "completed"
        /\ \E n \in 1..Len(runs[k].readOk) : runs[k].readOk[n] # "ok"
        /\ history[1].id = getFileId(runs[k].file)
        /\ history[1].result = runs[k].analysis

\* C23: the clip engine is constructed and loaded at most once per session:
\* as long as no initialization has failed at most one FFmpeg instance has
\* been constructed, and every generateClips call that works on an engine
\* works on the one instance the session holds, also when two runs overlap.
C23_EngineLoadedOnce ==
    /\ ~initFailed => engines <= 1
    /\ \A k \in Runs : runs[k].ffmpeg # 0 => runs[k].ffmpeg = ffmpegRef

\* C24: when a clip batch has completed and no other batch is in progress,
\* the engines' working filesystems hold neither an input file nor a per-clip
\* output file: the number of files does not grow with the batches.
C24_EngineFilesPurged ==
    (\A k \in Runs : ~AtEngine(k)) => engineFiles = {}

\* C25: the temporary source reference sampleFrames created for a run is
\* revoked once the run's sampling has ended, by completion or by failure.
C25_SourceReferenceRevoked ==
    \A k \in Runs :
        runs[k].pc \in {"analyze", "load", "write", "exec", "read",
                        "completed", "error"}
        => ~runs[k].urlLive

HoldsNoClips(h) ==
    \A n \in 1..Len(h) :
        \A i \in 1..Len(h[n].result.highlights) : ~hasClip(h[n].result.highlights[i])

\* C26: no history entry ever holds clip data, in memory or persisted, also
\* after cache-hit runs have generated clips from a cached result: the result
\* a cache hit hands to generateClips carries no clip, so every cache hit
\* generates its clips anew.
C26_HistoryHoldsNoClips ==
    /\ HoldsNoClips(history)
    /\ HoldsNoClips(storage)
    /\ \A k \in Runs :
           (runs[k].cacheHit /\ runs[k].analysis # NoResult)
           => WithoutClips(runs[k].analysis) = runs[k].analysis

\* two cache-hit runs on the same file have both produced clips, and the
\* entry they read still has none
C26_Witness ==
    \E j, k \in Runs :
        /\ j < k
        /\ runs[j].cacheHit /\ runs[k].cacheHit
        /\ runs[j].file = runs[k].file
        /\ runs[j].pc = "completed" /\ runs[k].pc = "completed"
        /\ \E i \in 1..Len(runs[j].output.highlights) : hasClip(runs[j].output.highlights[i])
        /\ \E i \in 1..Len(runs[k].output.highlights) : hasClip(runs[k].output.highlights[i])
        /\ \E n \in 1..Len(history) :
               /\ history[n].id = getFileId(runs[k].file)
               /\ history[n].result = runs[k].analysis

\* C27: generateClips changes nothing but clip fields.  The result a run
\* handed to generateClips is never changed afterwards, and the working copy
\* of the highlights and the result the call returns equal it once clip data
\* is taken away: same summary, same highlights in the same order, same
\* non-clip fields.
C27_OnlyClipFieldsChange ==
    [][\A k \in Runs :
          /\ runs[k].analysis # NoResult => runs'[k].analysis = runs[k].analysis
          /\ runs'[k].updatedHighlights # <<>>
                 => WithoutClips([runs'[k].analysis EXCEPT
                                     !.highlights = runs'[k].updatedHighlights])
                    = WithoutClips(runs'[k].analysis)
          /\ runs'[k].output # NoResult
                 => WithoutClips(runs'[k].output) = WithoutClips(runs'[k].analysis)]_vars

\* a batch has returned a result in which one highlight got its clip and
\* another did not
C27_Witness ==
    \E k \in Runs :
        /\ runs[k].pc = "completed"
        /\ runs[k].output # runs[k].analysis
        /\ \E i, j \in 1..Len(runs[k].output.highlights) :
               /\ hasClip(runs[k].output.highlights[i])
               /\ ~hasClip(runs[k].output.highlights[j])
        /\ WithoutClips(runs[k].output) = runs[k].analysis

\* C28: the entry a run puts into the history (the one stamped with the
\* current time) carries the identity of the file the run sampled, whatever
\* file is selected by then, and no entry made in that step carries another
\* identity.
C28_EntryKeyedByItsFile ==
    [][\A k \in Runs :
          Analysed(k)
          => \E n \in 1..Len(history') :
                 /\ history'[n].timestamp = clock
                 /\ history'[n].result = runs'[k].analysis
                 /\ history'[n].id = getFileId(runs[k].file)
                 /\ \A m \in 1..Len(history') :
                        history'[m].timestamp = clock => m = n]_vars

\* the first run was outstanding when the user reset, selected another file
\* and started a second run (whose closure does not know the first run's
\* entry yet); the first run's entry is in the history under its own file
\* while the other file is selected
C28_Witness ==
    /\ Len(runs) = 2
    /\ videoFile # 0
    /\ videoFile = runs[2].file
    /\ runs[1].file # runs[2].file
    /\ ~runs[1].cacheHit
    /\ runs[1].analysis # NoResult
    /\ EntriesOf(runs[2].history, getFileId(runs[1].file)) = {}
    /\ \E n \in EntriesOf(history, getFileId(runs[1].file)) :
           history[n].result = runs[1].analysis

\* C29: a completed status implies a result.  Whenever status is COMPLETED
\* results is not null, and every step that clears results also sets status
\* to IDLE.
C29_CompletedHasResults ==
    /\ [](status = "COMPLETED" => results # NoResult)
    /\ [][(results # NoResult /\ results' = NoResult) => status' = "IDLE"]_vars

\* a second run has completed after the first run's results were cleared
C29_Witness ==
    /\ status = "COMPLETED"
    /\ results # NoResult
    /\ Len(runs) = 2
    /\ runs[1].pc = "completed"
    /\ runs[2].pc = "completed"
    /\ runs[2].priorRun
    /\ results = runs[2].output

====
